---- MODULE Spec2Model ----
(***************************************************************************)
(* A model of domain_coloring.py: the winding number of a hue field around *)
(* a rectangle, the recursive zero search, the zoom heuristic and the      *)
(* branch-cut detector.                                                    *)
(*                                                                         *)
(* Hues and brightnesses are the reals of [0, 1) of the program, held as   *)
(* integers in hundredths (Unit = 1.0): 0.7 is 70, 0.01 is 1.  Arrays are  *)
(* functions indexed from 0, a[y][x] as in the program (row, then column). *)
(* Points of the complex plane are pairs of integers in window units.      *)
(***************************************************************************)
EXTENDS Integers, Sequences, FiniteSets, TLC

VARIABLES
    hue,          \* the hue array (phase), hue[y][x]
    value,        \* the brightness array, value[y][x]
    re_range,     \* <<lo, hi>> of the real part of the window
    im_range,     \* <<lo, hi>> of the imaginary part of the window
    step,         \* distance between two neighbouring grid points
    pc,           \* "idle", or the position inside a running call of zeros
    stack,        \* pending calls of _calc_zeros, the next one first
    zero_index,   \* the set of (col, row) indices zeros has collected
    tol,          \* the brightness tolerance of the running call of zeros
    last,         \* what the latest step of the zero search did
    ret           \* the latest call that returned: operation, arguments, result

vars == <<hue, value, re_range, im_range, step, pc, stack, zero_index, tol, last, ret>>

(***************************************************************************)
(* Bounds of the model.                                                    *)
(***************************************************************************)
\* Largest number of columns and of rows of an array of the winding checks.
MaxCol == 3
MaxRow == 3

(***************************************************************************)
(* Scale and helpers.                                                      *)
(***************************************************************************)
\* 1.0 in hundredths.
Unit == 100

Abs(n) == IF n < 0 THEN -n ELSE n

Min(a, b) == IF a <= b THEN a ELSE b

Max(a, b) == IF a >= b THEN a ELSE b

\* row, col = hue.shape
ShapeRow(a) == Cardinality(DOMAIN a)

ShapeCol(a) == Cardinality(DOMAIN a[0])

\* int(round(w)) of Python 3 for w given in hundredths: the nearest integer,
\* a tie going to the even one.
PyRound(w) ==
    LET q == w \div Unit
        r == w % Unit
    IN  IF 2 * r < Unit THEN q
        ELSE IF 2 * r > Unit THEN q + 1
        ELSE IF q % 2 = 0 THEN q ELSE q + 1

\* int(np.ceil(a / b)) for integers a and b > 0.
CeilDiv(a, b) == -((-a) \div b)

\* sum of F(i) for i in range(lo, hi)
RECURSIVE SumRange(_, _, _)
SumRange(lo, hi, F) == IF lo >= hi THEN 0 ELSE F[lo] + SumRange(lo + 1, hi, F)

(***************************************************************************)
(* _winding_path and winding_num.                                          *)
(***************************************************************************)
lim1 == 70

lim2 == 30

\* A step that never wraps: the plain difference.
winding_path_nowrap(val1, val2) == val1 - val2

\* winding_path with the first limit met by a hue equal to it.
winding_path_geq(val1, val2) ==
    IF val2 >= lim1
    THEN IF val1 < lim2 THEN Unit + val1 - val2 ELSE val1 - val2
    ELSE IF val2 < lim2
         THEN IF val1 > lim1 THEN -Unit + val1 - val2 ELSE val1 - val2
         ELSE val1 - val2

\* The winding difference of one step from val2 to val1.
winding_path(val1, val2) ==
    IF val2 > lim1
    THEN IF val1 < lim2 THEN Unit + val1 - val2 ELSE val1 - val2
    ELSE IF val2 < lim2
         THEN IF val1 > lim1 THEN -Unit + val1 - val2 ELSE val1 - val2
         ELSE val1 - val2

\* The corners of rect in order: <<x1, y1, x2, y2>> with x1 <= x2, y1 <= y2.
Normalize(rect) ==
    <<Min(rect[1][1], rect[2][1]), Min(rect[1][2], rect[2][2]),
      Max(rect[1][1], rect[2][1]), Max(rect[1][2], rect[2][2])>>

\* The local winding of winding_num when its loops are done: the sum of the
\* winding differences, not yet rounded.
winding(h, rect) ==
    LET n  == Normalize(rect)
        x1 == n[1]
        y1 == n[2]
        x2 == n[3]
        y2 == n[4]
        rowsum == [i \in x1..(x2 - 1) |->
                     winding_path(h[y2][i + 1], h[y2][i])
                     + winding_path(h[y1][i], h[y1][i + 1])]
        colsum == [j \in y1..(y2 - 1) |->
                     winding_path(h[j][x2], h[j + 1][x2])
                     + winding_path(h[j + 1][x1], h[j][x1])]
    IN  SumRange(x1, x2, rowsum) + SumRange(y1, y2, colsum)

winding_num(h, rect) == PyRound(winding(h, rect))

(***************************************************************************)
(* Hue fields the checks draw from.                                        *)
(***************************************************************************)
\* The hue of a function with a simple zero (kind 1) or pole (kind -1)
\* between columns cx-1 and cx and rows cy-1 and cy: one hue per quadrant,
\* counterclockwise from the upper right one, turned by off.
QuadHue(x, y, cx, cy, kind, off) ==
    LET q == IF y < cy THEN (IF x >= cx THEN 12 ELSE 37)
                       ELSE (IF x < cx THEN 62 ELSE 87)
    IN  IF kind = 1 THEN (q + off) % Unit ELSE (2 * Unit - q - off) % Unit

HueOffsets == {0, 13}

HueLevels == {0, 30, 70, 99}

ZeroLikeFields(col, row, offs) ==
    { [y \in 0..(row - 1) |-> [x \in 0..(col - 1) |-> QuadHue(x, y, cx, cy, kind, off)]] :
        <<cx, cy, kind, off>> \in (0..col) \X (0..row) \X {1, -1} \X offs }

\* a with the cell (x, y) set to v.
Poke(a, x, y, v) == [a EXCEPT ![y][x] = v]

\* A zero-like field, as it is or with one cell set to any level.
HueFields(col, row) ==
    LET base == ZeroLikeFields(col, row, HueOffsets)
    IN  base \cup { Poke(a, x, y, v) :
                      <<a, x, y, v>> \in base \X (0..(col - 1)) \X (0..(row - 1)) \X HueLevels }

\* A brightness array that is bright everywhere.
Bright(col, row) == [y \in 0..(row - 1) |-> [x \in 0..(col - 1) |-> 50]]

(***************************************************************************)
(* The winding number of a field around a rectangle.                       *)
(***************************************************************************)
NoStep == [kind |-> "none"]

InitW ==
    /\ \E col \in 2..MaxCol, row \in 2..MaxRow :
         /\ hue \in HueFields(col, row)
         /\ value = Bright(col, row)
         /\ re_range = <<0, col - 1>>
         /\ im_range = <<0, row - 1>>
    /\ step = 1
    /\ pc = "idle"
    /\ stack = <<>>
    /\ zero_index = {}
    /\ tol = 1
    /\ last = NoStep
    /\ ret = [op |-> "none"]

\* winding = winding_num(hue, rect)
WindingNum ==
    /\ pc = "idle"
    /\ ret.op = "none"
    /\ \E xa, xb \in 0..(ShapeCol(hue) - 1), ya, yb \in 0..(ShapeRow(hue) - 1) :
         LET rect == <<<<xa, ya>>, <<xb, yb>>>>
         IN  ret' = [op |-> "winding_num", rect |-> rect, val |-> winding_num(hue, rect)]
    /\ UNCHANGED <<hue, value, re_range, im_range, step, pc, stack, zero_index, tol, last>>

NextW == WindingNum

SpecW == InitW /\ [][NextW]_vars

(***************************************************************************)
(* func_grid: the window a grid samples.                                   *)
(***************************************************************************)
\* len(np.arange(lo, hi + step, step)) for lo <= hi, both multiples of step.
GridLen(range, st) == (range[2] - range[1]) \div st + 1

\* The point of the plane func_grid samples in array cell [y][x], as
\* <<real part, imaginary part>>: columns run up from re_range[0], rows run
\* down from im_range[1].
GridPoint(x, y) == <<re_range[1] + x * step, im_range[2] - y * step>>

(***************************************************************************)
(* _calc_zeros and zeros.                                                  *)
(***************************************************************************)
\* The span at or under which a rectangle is scanned instead of split.
BaseSpan == 3

IsBase(r) == r[2][2] - r[1][2] <= BaseSpan /\ r[2][1] - r[1][1] <= BaseSpan

\* The indices the base case adds: range(x1, x2) by range(y1, y2).
BaseScan(v, r, t) ==
    { <<i, j>> \in (r[1][1]..(r[2][1] - 1)) \X (r[1][2]..(r[2][2] - 1)) : v[j][i] < t }

\* The indices the scan of the edges adds when the winding number is 0.
EdgeScan(v, r, t) ==
    LET x1 == r[1][1]
        y1 == r[1][2]
        x2 == r[2][1]
        y2 == r[2][2]
    IN  { <<i, y1>> : i \in { k \in x1..(x2 - 1) : v[y1][k] < t } }
        \cup { <<i, y2>> : i \in { k \in x1..(x2 - 1) : v[y2][k] < t } }
        \cup { <<x1, j>> : j \in { k \in y1..(y2 - 1) : v[k][x1] < t } }
        \cup { <<x2, j>> : j \in { k \in y1..(y2 - 1) : v[k][x2] < t } }

\* The two rectangles with a gap at the seam: the second starts one past the cut.
SplitGap(r) ==
    LET x1 == r[1][1]
        y1 == r[1][2]
        x2 == r[2][1]
        y2 == r[2][2]
    IN  IF y2 - y1 < x2 - x1
        THEN << <<<<x1, y1>>, <<CeilDiv(x2 + x1, 2), y2>>>>,
                <<<<CeilDiv(x2 + x1, 2) + 1, y1>>, <<x2, y2>>>> >>
        ELSE << <<<<x1, y1>>, <<x2, CeilDiv(y2 + y1, 2)>>>>,
                <<<<x1, CeilDiv(y1 + y2, 2) + 1>>, <<x2, y2>>>> >>

\* Split with the first call made on the parent rectangle again.
SplitWhole(r) ==
    LET x1 == r[1][1]
        y1 == r[1][2]
        x2 == r[2][1]
        y2 == r[2][2]
    IN  IF y2 - y1 < x2 - x1
        THEN << <<<<x1, y1>>, <<x2, y2>>>>,
                <<<<CeilDiv(x2 + x1, 2), y1>>, <<x2, y2>>>> >>
        ELSE << <<<<x1, y1>>, <<x2, y2>>>>,
                <<<<x1, CeilDiv(y1 + y2, 2)>>, <<x2, y2>>>> >>

\* Split with the first rectangle flattened onto the parent's first edge
\* across the cut.
SplitFlat(r) ==
    LET x1 == r[1][1]
        y1 == r[1][2]
        x2 == r[2][1]
        y2 == r[2][2]
    IN  IF y2 - y1 < x2 - x1
        THEN << <<<<x1, y1>>, <<CeilDiv(x2 + x1, 2), y1>>>>,
                <<<<CeilDiv(x2 + x1, 2), y1>>, <<x2, y2>>>> >>
        ELSE << <<<<x1, y1>>, <<x1, CeilDiv(y2 + y1, 2)>>>>,
                <<<<x1, CeilDiv(y1 + y2, 2)>>, <<x2, y2>>>> >>

\* The two rectangles _calc_zeros recurses on, in the order of the calls.
Split(r) ==
    LET x1 == r[1][1]
        y1 == r[1][2]
        x2 == r[2][1]
        y2 == r[2][2]
    IN  IF y2 - y1 < x2 - x1
        THEN << <<<<x1, y1>>, <<CeilDiv(x2 + x1, 2), y2>>>>,
                <<<<CeilDiv(x2 + x1, 2), y1>>, <<x2, y2>>>> >>
        ELSE << <<<<x1, y1>>, <<x2, CeilDiv(y2 + y1, 2)>>>>,
                <<<<x1, CeilDiv(y1 + y2, 2)>>, <<x2, y2>>>> >>

\* The starting rectangle of zeros: the whole array for None (written <<>>),
\* else the corners put in order.
StartRect(h, rect) ==
    IF rect = <<>>
    THEN <<<<0, 0>>, <<ShapeCol(h) - 1, ShapeRow(h) - 1>>>>
    ELSE LET n == Normalize(rect) IN <<<<n[1], n[2]>>, <<n[3], n[4]>>>>

\* The complex root zeros derives from an index (col, row), as the fraction
\* <<real numerator, imaginary numerator, denominator>>: with
\* step = (re_range[1] - re_range[0]) / (row - 1), re = re_range[0] + col*step
\* and im = im_range[0] + row*step.
RootOf(index, rows) ==
    LET den == rows - 1
        num == re_range[2] - re_range[1]
    IN  <<re_range[1] * den + index[1] * num, im_range[1] * den + index[2] * num, den>>

(***************************************************************************)
(* The zero search.                                                        *)
(***************************************************************************)
\* Largest number of columns and of rows of an array of the zero search.
ZMaxCol == 8
ZMaxRow == 8

\* Largest number of cells of an array of the zero search.
ZMaxCells == 25

\* Lower bounds of the windows drawn, in window units.
Lows == {-1, 0}

Tols == {1, 2}

\* A brightness array: dark (0) at the cells of D, elsewhere exactly 0.01 on
\* the cells of even x + y and 0.5 on the others.
ValueField(col, row, D) ==
    [y \in 0..(row - 1) |-> [x \in 0..(col - 1) |->
        IF <<x, y>> \in D THEN 0 ELSE IF (x + y) % 2 = 0 THEN 1 ELSE 50]]

\* No dark cell, or one.
DarkSets(col, row) == {{}} \cup { {p} : p \in (0..(col - 1)) \X (0..(row - 1)) }

\* The rect arguments drawn: None (written <<>>), and the array less its
\* first column, its first row, its last column or its last row, the corners
\* given in an order zeros has to put right.
StartRects(col, row) ==
    {<<>>}
    \cup { <<<<col - 1, row - 1>>, <<xa, ya>>>> :
             <<xa, ya>> \in { p \in {<<1, 0>>, <<0, 1>>} : p[1] <= col - 1 /\ p[2] <= row - 1 } }
    \cup { <<<<0, yb>>, <<xb, 0>>>> :
             <<xb, yb>> \in { p \in {<<col - 2, row - 1>>, <<col - 1, row - 2>>} :
                                p[1] >= 0 /\ p[2] >= 0 } }

InitZ ==
    /\ step = 1
    /\ \E col \in 1..ZMaxCol, row \in 1..ZMaxRow, re_lo \in Lows, im_lo \in Lows :
         /\ col * row <= ZMaxCells
         /\ re_range = <<re_lo, re_lo + (col - 1) * step>>
         /\ im_range = <<im_lo, im_lo + (row - 1) * step>>
         /\ hue \in ZeroLikeFields(col, row, {0})
         /\ \E D \in DarkSets(col, row) : value = ValueField(col, row, D)
    /\ pc = "idle"
    /\ stack = <<>>
    /\ zero_index = {}
    /\ tol = 1
    /\ last = NoStep
    /\ ret = [op |-> "none"]

\* zeros(hue, value, re_range, im_range, rect, tol), up to the first call of
\* _calc_zeros.  The rectangle of that first call is kept in last.start by
\* every later step.
ZerosCall ==
    /\ pc = "idle"
    /\ ret.op = "none"
    /\ \E t \in Tols :
         \E rect \in StartRects(ShapeCol(hue), ShapeRow(hue)) :
           /\ tol' = t
           /\ stack' = <<StartRect(hue, rect)>>
           /\ last' = [kind |-> "call", rect |-> rect, start |-> StartRect(hue, rect)]
    /\ zero_index' = {}
    /\ pc' = "calc"
    /\ UNCHANGED <<hue, value, re_range, im_range, step, ret>>

\* One call of _calc_zeros that takes the base case.
CalcBase ==
    /\ pc = "calc"
    /\ stack # <<>>
    /\ IsBase(Head(stack))
    /\ zero_index' = zero_index \cup BaseScan(value, Head(stack), tol)
    /\ stack' = Tail(stack)
    /\ last' = [kind |-> "base", rect |-> Head(stack),
                added |-> BaseScan(value, Head(stack), tol), kids |-> <<>>,
                start |-> last.start]
    /\ UNCHANGED <<hue, value, re_range, im_range, step, pc, tol, ret>>

\* One call of _calc_zeros that finds the winding number 0.
CalcEdges ==
    /\ pc = "calc"
    /\ stack # <<>>
    /\ ~IsBase(Head(stack))
    /\ winding_num(hue, Head(stack)) = 0
    /\ zero_index' = zero_index \cup EdgeScan(value, Head(stack), tol)
    /\ stack' = Tail(stack)
    /\ last' = [kind |-> "edges", rect |-> Head(stack),
                added |-> EdgeScan(value, Head(stack), tol), kids |-> <<>>,
                start |-> last.start]
    /\ UNCHANGED <<hue, value, re_range, im_range, step, pc, tol, ret>>

\* One call of _calc_zeros that finds a winding number other than 0 and
\* recurses: its two calls are the next two to run.
CalcSplit ==
    /\ pc = "calc"
    /\ stack # <<>>
    /\ ~IsBase(Head(stack))
    /\ winding_num(hue, Head(stack)) # 0
    /\ stack' = Split(Head(stack)) \o Tail(stack)
    /\ last' = [kind |-> "split", rect |-> Head(stack),
                added |-> {}, kids |-> Split(Head(stack)),
                start |-> last.start]
    /\ UNCHANGED <<hue, value, re_range, im_range, step, pc, zero_index, tol, ret>>

\* zeros after _calc_zeros has returned: the roots of the indices found.
ZerosReturn ==
    /\ pc = "calc"
    /\ stack = <<>>
    /\ pc' = "done"
    /\ ret' = IF ShapeRow(hue) - 1 = 0
              THEN [op |-> "zeros", error |-> "ZeroDivisionError"]
              ELSE [op |-> "zeros", error |-> "none",
                    zero_list |-> [index \in zero_index |-> RootOf(index, ShapeRow(hue))],
                    index_list |-> zero_index]
    /\ UNCHANGED <<hue, value, re_range, im_range, step, stack, zero_index, tol, last>>

NextZ == ZerosCall \/ CalcBase \/ CalcEdges \/ CalcSplit \/ ZerosReturn

SpecZ == InitZ /\ [][NextZ]_vars

\* The arrays of InitZ with no dark cell, over the one window from 0: which
\* rectangles the search visits depends on hue and the rectangle alone.
InitT ==
    /\ step = 1
    /\ \E col \in 1..ZMaxCol, row \in 1..ZMaxRow :
         /\ col * row <= ZMaxCells
         /\ re_range = <<0, (col - 1) * step>>
         /\ im_range = <<0, (row - 1) * step>>
         /\ hue \in ZeroLikeFields(col, row, {0})
         /\ value = ValueField(col, row, {})
    /\ pc = "idle"
    /\ stack = <<>>
    /\ zero_index = {}
    /\ tol = 1
    /\ last = NoStep
    /\ ret = [op |-> "none"]

\* A call of zeros runs on: the interpreter takes the next step of the call
\* whenever there is one.
SpecZFair == InitT /\ [][NextZ]_vars /\ WF_vars(NextZ)

(***************************************************************************)
(* The winding numbers of a rectangle and of the two rectangles            *)
(* _calc_zeros splits it into.                                             *)
(***************************************************************************)
\* Largest number of columns, of rows and of cells of an array split.
AMaxCol == 5
AMaxRow == 5
AMaxCells == 12

InitA ==
    /\ \E col \in 1..AMaxCol, row \in 1..AMaxRow :
         /\ col * row <= AMaxCells
         /\ hue \in HueFields(col, row)
         /\ value = Bright(col, row)
         /\ re_range = <<0, col - 1>>
         /\ im_range = <<0, row - 1>>
    /\ step = 1
    /\ pc = "idle"
    /\ stack = <<>>
    /\ zero_index = {}
    /\ tol = 1
    /\ last = NoStep
    /\ ret = [op |-> "none"]

\* winding_num(hue, rect) for a rectangle with its corners in order, and
\* for each of the rectangles _calc_zeros would recurse on from it.
Bisect ==
    /\ pc = "idle"
    /\ ret.op = "none"
    /\ \E x1, x2 \in 0..(ShapeCol(hue) - 1), y1, y2 \in 0..(ShapeRow(hue) - 1) :
         /\ x1 <= x2
         /\ y1 <= y2
         /\ LET rect == <<<<x1, y1>>, <<x2, y2>>>>
                kids == Split(rect)
            IN  ret' = [op |-> "bisect", rect |-> rect, kids |-> kids,
                        sum |-> winding(hue, rect),
                        val |-> winding_num(hue, rect),
                        kidvals |-> <<winding_num(hue, kids[1]), winding_num(hue, kids[2])>>]
    /\ UNCHANGED <<hue, value, re_range, im_range, step, pc, stack, zero_index, tol, last>>

NextA == Bisect

SpecA == InitA /\ [][NextA]_vars

(***************************************************************************)
(* _brightness and zoom_fit_zero.                                          *)
(***************************************************************************)
\* The None that _brightness returns, apart from every count of steps.
None == -1

\* value[y][x] raises IndexError: an index at or past the end of its axis,
\* or more than its length before 0 (an index -n..-1 counts from the end).
IndexError(v, x, y) ==
    \/ y >= ShapeRow(v) \/ y < -ShapeRow(v)
    \/ x >= ShapeCol(v) \/ x < -ShapeCol(v)

\* The loop of _brightness from the cell (x, y) with diff steps counted and
\* light the brightness read last: the count of steps, or None once the
\* walk raised IndexError.
RECURSIVE BrightnessLoop(_, _, _, _, _, _, _, _)
BrightnessLoop(v, x, y, light_val, x_val, max_val, light, diff) ==
    IF ~(light < light_val) THEN diff
    ELSE IF IndexError(v, x, y) THEN None
    ELSE LET d  == IF max_val THEN 1 ELSE -1
             nx == IF x_val THEN x + d ELSE x
             ny == IF x_val THEN y ELSE y + d
         IN  IF nx < 0 \/ ny < 0 THEN None
             ELSE BrightnessLoop(v, nx, ny, light_val, x_val, max_val, v[y][x], diff + 1)

brightness(v, x, y, light_val, x_val, max_val) ==
    BrightnessLoop(v, x, y, light_val, x_val, max_val, 0, 0)

\* The loop over zero_index[1:] with the bounds so far, each element
\* unpacked as y, x.
RECURSIVE BoxLoop(_, _, _)
BoxLoop(zi, k, b) ==
    IF k > Len(zi) THEN b
    ELSE LET y == zi[k][1]
             x == zi[k][2]
             bx == IF x > b.x_max THEN [b EXCEPT !.x_max = x]
                   ELSE IF x < b.x_min THEN [b EXCEPT !.x_min = x] ELSE b
             by == IF y > bx.y_max THEN [bx EXCEPT !.y_max = y]
                   ELSE IF y < bx.y_min THEN [bx EXCEPT !.y_min = y] ELSE bx
         IN  BoxLoop(zi, k + 1, by)

\* x_max, x_min, y_max, y_min of zoom_fit_zero for a list that is not empty.
Box(zi) ==
    BoxLoop(zi, 2, [x_max |-> zi[1][1], x_min |-> zi[1][1],
                    y_max |-> zi[1][2], y_min |-> zi[1][2]])

\* zoom_fit_zero: the ranges and the step returned, the step as the
\* fraction <<numerator, denominator>>; aborted tells that the inputs were
\* returned, box and diff are its locals.
zoom_fit_zero(zi, v, re, im, st, light_val) ==
    IF zi = <<>>
    THEN [re_range |-> re, im_range |-> im, step |-> <<st, 1>>, aborted |-> TRUE,
          box |-> [x_max |-> None, x_min |-> None, y_max |-> None, y_min |-> None],
          diff |-> <<>>]
    ELSE
    LET b == Box(zi)
        diff_x_min == brightness(v, b.x_min, b.y_min, light_val, TRUE, FALSE)
        diff_y_min == brightness(v, b.x_max, b.y_min, light_val, FALSE, FALSE)
        diff_x_max == brightness(v, b.x_max, b.y_max, light_val, TRUE, TRUE)
        diff_y_max == brightness(v, b.x_min, b.y_max, light_val, FALSE, TRUE)
        diff == <<diff_x_min, diff_y_min, diff_x_max, diff_y_max>>
    IN  IF diff_x_min = None \/ diff_x_max = None \/ diff_y_min = None \/ diff_y_max = None
        THEN [re_range |-> re, im_range |-> im, step |-> <<st, 1>>, aborted |-> TRUE,
              box |-> b, diff |-> diff]
        ELSE
        LET row == ShapeRow(v)
            col == ShapeCol(v)
            lower_bound_re == re[1] + (b.x_min - diff_x_min + 1) * st
            upper_bound_re == re[2] - (col - b.x_max - diff_x_max) * st
            lower_bound_im == im[1] + (b.y_min - diff_y_min + 1) * st
            upper_bound_im == im[2] - (row - b.y_max - diff_y_max) * st
        IN  [re_range |-> <<lower_bound_re, upper_bound_re>>,
             im_range |-> <<lower_bound_im, upper_bound_im>>,
             step |-> <<(upper_bound_re - lower_bound_re) * st, re[2] - re[1]>>,
             aborted |-> FALSE, box |-> b, diff |-> diff]

(***************************************************************************)
(* The zoom.                                                               *)
(***************************************************************************)
\* Largest number of columns and of rows of an array of the zoom.
OMaxCol == 4
OMaxRow == 4

\* Largest number of indices of a list given to zoom_fit_zero.
MaxZeros == 2

\* The brightness thresholds drawn: 0.95 is the default of light_val.
LightVals == {95}

ValueLevels == {0, 94, 95}

\* The brightness around a zero in the cell (cx, cy): 0 there, rising with
\* the distance to reach 0.99 at the distance rad.
BlobValue(x, y, cx, cy, rad) ==
    LET d == Max(Abs(x - cx), Abs(y - cy))
    IN  IF d = 0 THEN 0 ELSE IF d >= rad THEN 99 ELSE 50

BlobFields(col, row) ==
    { [y \in 0..(row - 1) |-> [x \in 0..(col - 1) |-> BlobValue(x, y, cx, cy, rad)]] :
        <<cx, cy, rad>> \in (0..(col - 1)) \X (0..(row - 1)) \X (1..Max(col, row)) }

\* A brightness array around one zero, as it is or with one cell set to any level.
ValueFields(col, row) ==
    LET base == BlobFields(col, row)
    IN  base \cup { Poke(a, x, y, l) :
                      <<a, x, y, l>> \in base \X (0..(col - 1)) \X (0..(row - 1)) \X ValueLevels }

\* The lists of distinct (col, row) indices of the array, MaxZeros at most.
RECURSIVE IndexLists(_, _)
IndexLists(cells, n) ==
    IF n = 0 THEN {<<>>}
    ELSE LET shorter == IndexLists(cells, n - 1)
         IN  shorter \cup { Append(l, c) : <<l, c>> \in
                              { q \in shorter \X cells :
                                  /\ Len(q[1]) = n - 1
                                  /\ \A k \in 1..Len(q[1]) : q[1][k] # q[2] } }

InitO ==
    /\ step = 1
    /\ \E col \in 1..OMaxCol, row \in 1..OMaxRow, lo \in Lows :
         /\ re_range = <<lo, lo + (col - 1) * step>>
         /\ im_range = <<lo, lo + (row - 1) * step>>
         /\ value \in ValueFields(col, row)
         /\ hue = [y \in 0..(row - 1) |-> [x \in 0..(col - 1) |-> 0]]
    /\ pc = "idle"
    /\ stack = <<>>
    /\ zero_index = {}
    /\ tol = 1
    /\ last = NoStep
    /\ ret = [op |-> "none"]

\* zoom_fit_zero(index, value, re_range, im_range, step, light_val)
ZoomFitZero ==
    /\ pc = "idle"
    /\ ret.op = "none"
    /\ \E zi \in IndexLists((0..(ShapeCol(value) - 1)) \X (0..(ShapeRow(value) - 1)), MaxZeros),
          light_val \in LightVals :
         ret' = [op |-> "zoom_fit_zero", index |-> zi, light_val |-> light_val,
                 out |-> zoom_fit_zero(zi, value, re_range, im_range, step, light_val)]
    /\ UNCHANGED <<hue, value, re_range, im_range, step, pc, stack, zero_index, tol, last>>

NextO == ZoomFitZero

SpecO == InitO /\ [][NextO]_vars

(***************************************************************************)
(* branch_cut.                                                             *)
(***************************************************************************)
branch_lim == 40

deviation == 2

blim1 == 90

blim2 == 10

btol == 20

\* The two indices branch_cut probes beside an axis, from the range across it:
\* int(np.ceil(np.abs(range[0]) / step) - deviation) and the same + deviation.
Zero1(range, st) == CeilDiv(Abs(range[1]), st) - deviation

Zero2(range, st) == CeilDiv(Abs(range[1]), st) + deviation

\* An index i raises IndexError on an axis of length n.
BadIndex(i, n) == i >= n \/ i < -n

\* The position an index takes on an axis of length n: one below 0 counts
\* from the end.
PyIndex(i, n) == IF i < 0 THEN i + n ELSE i

\* The test of one position: the hues h1 and h2 and the brightnesses v1
\* and v2 of the two probed lines there.
BranchAt(h1, h2, v1, v2) ==
    LET first_con  == h1 > blim1 /\ h2 < blim2
        second_con == h2 > blim1 /\ h1 < blim2
    IN  /\ ~(first_con \/ second_con)
        /\ v1 > btol /\ v2 > btol
        /\ Abs(h1 - h2) > branch_lim

\* The loop along the real axis: "IndexError", "True", or "False" when it
\* ends without a return.
ReAxisLoop(h, v, im, st) ==
    LET row == ShapeRow(h)
        col == ShapeCol(h)
        y_zero1 == Zero1(im, st)
        y_zero2 == Zero2(im, st)
    IN  IF BadIndex(y_zero1, row) \/ BadIndex(y_zero2, row) THEN "IndexError"
        ELSE IF \E i \in 0..(col - 1) :
                   BranchAt(h[PyIndex(y_zero1, row)][i], h[PyIndex(y_zero2, row)][i],
                            v[PyIndex(y_zero1, row)][i], v[PyIndex(y_zero2, row)][i])
             THEN "True" ELSE "False"

\* The loop along the imaginary axis.
ImAxisLoop(h, v, re, st) ==
    LET row == ShapeRow(h)
        col == ShapeCol(h)
        x_zero1 == Zero1(re, st)
        x_zero2 == Zero2(re, st)
    IN  IF BadIndex(x_zero1, col) \/ BadIndex(x_zero2, col) THEN "IndexError"
        ELSE IF \E j \in 0..(row - 1) :
                   BranchAt(h[j][PyIndex(x_zero1, col)], h[j][PyIndex(x_zero2, col)],
                            v[j][PyIndex(x_zero1, col)], v[j][PyIndex(x_zero2, col)])
             THEN "True" ELSE "False"

\* branch_cut: "True", "False", or "IndexError" when an index raises.
branch_cut(h, v, re, im, st) ==
    LET re_axis_in == im[1] < 0 /\ 0 < im[2]
        im_axis_in == re[1] < 0 /\ 0 < re[2]
        first  == IF re_axis_in THEN ReAxisLoop(h, v, im, st) ELSE "False"
        second == IF im_axis_in THEN ImAxisLoop(h, v, re, st) ELSE "False"
    IN  IF ~(re_axis_in \/ im_axis_in) THEN "False"
        ELSE IF first # "False" THEN first
        ELSE second

(***************************************************************************)
(* The branch cuts.                                                        *)
(***************************************************************************)
\* The bounds of a range drawn lie within BMax of 0, in steps.
BMax == 3

\* The ranges drawn for an axis: lo < hi, either side of 0 or not.
Ranges(st) ==
    { <<lo * st, hi * st>> : <<lo, hi>> \in
        { q \in ((-BMax)..1) \X ((-1)..BMax) : q[1] < q[2] } }

\* The pairs of hues either side of a cut: a wraparound pair either way, a
\* difference of 0.39, 0.4 and 0.41, a large difference that is no
\* wraparound, and no difference.
HuePairs == {<<95, 5>>, <<5, 95>>, <<50, 89>>, <<50, 90>>, <<91, 50>>, <<95, 10>>, <<50, 50>>}

\* The hue a before the line at c (rows above it when across is TRUE, else
\* columns left of it) and b from it on, but only on the columns (the rows)
\* before e; b elsewhere.
CutHue(x, y, c, e, across, a, b) ==
    IF across THEN (IF y < c /\ x < e THEN a ELSE b)
    ELSE (IF x < c /\ y < e THEN a ELSE b)

CutFields(col, row) ==
    { [y \in 0..(row - 1) |-> [x \in 0..(col - 1) |-> CutHue(x, y, c, e, across, p[1], p[2])]] :
        <<c, e, across, p>> \in (0..Max(col, row)) \X (0..Max(col, row)) \X BOOLEAN \X HuePairs }

\* The brightness 0.2 before the line at c and 0.21 from it on.
DimFields(col, row) ==
    { [y \in 0..(row - 1) |-> [x \in 0..(col - 1) |->
          IF (IF across THEN y < c ELSE x < c) THEN 20 ELSE 21]] :
        <<c, across>> \in (0..Max(col, row)) \X BOOLEAN }

InitB ==
    /\ step = 1
    /\ re_range \in Ranges(step)
    /\ im_range \in Ranges(step)
    /\ hue \in CutFields(GridLen(re_range, step), GridLen(im_range, step))
    /\ value \in DimFields(GridLen(re_range, step), GridLen(im_range, step))
    /\ pc = "idle"
    /\ stack = <<>>
    /\ zero_index = {}
    /\ tol = 1
    /\ last = NoStep
    /\ ret = [op |-> "none"]

\* branch = branch_cut(hue, value, re_range, im_range, step)
BranchCut ==
    /\ pc = "idle"
    /\ ret.op = "none"
    /\ ret' = [op |-> "branch_cut", val |-> branch_cut(hue, value, re_range, im_range, step)]
    /\ UNCHANGED <<hue, value, re_range, im_range, step, pc, stack, zero_index, tol, last>>

NextB == BranchCut

SpecB == InitB /\ [][NextB]_vars

(***************************************************************************)
(* C1.  The closed counterclockwise walk of a rectangle's boundary.        *)
(***************************************************************************)
\* The k-th point (k from 0) of the walk of the rectangle n = <<x1, y1, x2, y2>>:
\* along the bottom row y2 from x1 to x2, up the right column x2 to y1, back
\* along the top row y1 to x1, down the left column x1 to y2.
WalkPoint(n, k) ==
    LET w == n[3] - n[1]
        h == n[4] - n[2]
    IN  IF k <= w THEN <<n[1] + k, n[4]>>
        ELSE IF k <= w + h THEN <<n[3], n[4] - (k - w)>>
        ELSE IF k <= 2 * w + h THEN <<n[3] - (k - w - h), n[2]>>
        ELSE <<n[1], n[2] + (k - 2 * w - h)>>

WalkLen(n) == 2 * (n[3] - n[1]) + 2 * (n[4] - n[2])

\* The signed hue delta of one step of the walk, as the claim states it.
Delta(prev, next) ==
    IF prev > 70 /\ next < 30 THEN next - prev + 100
    ELSE IF prev < 30 /\ next > 70 THEN next - prev - 100
    ELSE next - prev

HueAt(h, p) == h[p[2]][p[1]]

WalkSum(h, n) ==
    SumRange(0, WalkLen(n),
             [k \in 0..(WalkLen(n) - 1) |->
                Delta(HueAt(h, WalkPoint(n, k)), HueAt(h, WalkPoint(n, k + 1)))])

\* The unit segments the walk goes along, each as its set of two end points.
WalkSegments(n) == { {WalkPoint(n, k), WalkPoint(n, k + 1)} : k \in 0..(WalkLen(n) - 1) }

SpanAtLeast1(n) == n[3] - n[1] >= 1 /\ n[4] - n[2] >= 1

\* C1: for a rectangle of span >= 1 in both axes winding_num returns the
\* integer nearest to the sum of the signed hue deltas over the unit steps of
\* the closed counterclockwise walk of the boundary, every unit segment of
\* the boundary being walked exactly once.
C1_WindingIsRoundedWalkSum ==
    (ret.op = "winding_num" /\ SpanAtLeast1(Normalize(ret.rect))) =>
        LET n == Normalize(ret.rect)
        IN  /\ 2 * Abs(Unit * ret.val - WalkSum(hue, n)) <= Unit
            /\ Cardinality(WalkSegments(n)) = WalkLen(n)
            /\ WalkPoint(n, WalkLen(n)) = WalkPoint(n, 0)

\* A nonzero winding number was returned for a walk that steps from a hue
\* just under 1 to a hue of exactly 0.
C1_Witness ==
    /\ ret.op = "winding_num"
    /\ SpanAtLeast1(Normalize(ret.rect))
    /\ ret.val # 0
    /\ \E k \in 0..(WalkLen(Normalize(ret.rect)) - 1) :
         /\ HueAt(hue, WalkPoint(Normalize(ret.rect), k)) = 99
         /\ HueAt(hue, WalkPoint(Normalize(ret.rect), k + 1)) = 0

(***************************************************************************)
(* C2, C3, C4, C10.  The zero search.                                      *)
(***************************************************************************)
\* The grid points of a rectangle, its boundary included.
RectPoints(r) == (r[1][1]..r[2][1]) \X (r[1][2]..r[2][2])

\* The grid points on the four edges of a rectangle, its corners included.
EdgePoints(r) ==
    { p \in RectPoints(r) : p[1] \in {r[1][1], r[2][1]} \/ p[2] \in {r[1][2], r[2][2]} }

Dark(p) == value[p[2]][p[1]] < tol

\* C2: every root zeros returns for an index (col, row) is the point
\* func_grid sampled in cell [row][col], and so lies within step of a
\* sampled point whose brightness is below tol.
C2_RootIsSampledPoint ==
    (pc = "done" /\ ret.op = "zeros" /\ ret.error = "none") =>
        \A index \in ret.index_list :
            LET z == ret.zero_list[index]
                g == GridPoint(index[1], index[2])
            IN  /\ z[1] = z[3] * g[1]
                /\ z[2] = z[3] * g[2]
                /\ \E p \in RectPoints(<<<<0, 0>>, <<ShapeCol(hue) - 1, ShapeRow(hue) - 1>>>>) :
                     /\ Dark(p)
                     /\ (z[1] - z[3] * GridPoint(p[1], p[2])[1]) * (z[1] - z[3] * GridPoint(p[1], p[2])[1])
                        + (z[2] - z[3] * GridPoint(p[1], p[2])[2]) * (z[2] - z[3] * GridPoint(p[1], p[2])[2])
                        <= (z[3] * step) * (z[3] * step)

\* C3: a call that takes the base case adds every point of its rectangle,
\* columns x1..x2 and rows y1..y2 inclusive, whose brightness is below tol,
\* and adds no point whose brightness is tol or more.
C3_BaseScansWholeRectangle ==
    last.kind = "base" =>
        /\ \A p \in RectPoints(last.rect) : Dark(p) => p \in last.added /\ p \in zero_index
        /\ \A p \in last.added : Dark(p)

\* C4: a call on a rectangle larger than the base case whose winding number
\* is 0 makes no further call and adds exactly the points of the four edges
\* of its rectangle, the corners included, whose brightness is below tol.
C4_ZeroWindingScansEdges ==
    last.kind = "edges" =>
        /\ last.kids = <<>>
        /\ last.added = { p \in EdgePoints(last.rect) : Dark(p) }
        /\ last.added \subseteq zero_index

\* C10: a call on a rectangle larger than the base case whose winding number
\* is not 0 cuts the longer axis (the columns when height < width, else the
\* rows) at m = ceil((lo + hi) / 2), lo < m < hi, and calls itself on two
\* rectangles that both hold the cut line and together hold every grid point
\* of the parent; they are the next two calls to run.
C10_SplitCoversParent ==
    last.kind = "split" =>
        LET r  == last.rect
            k1 == last.kids[1]
            k2 == last.kids[2]
            byCol == r[2][2] - r[1][2] < r[2][1] - r[1][1]
            lo == IF byCol THEN r[1][1] ELSE r[1][2]
            hi == IF byCol THEN r[2][1] ELSE r[2][2]
            m  == (lo + hi + 1) \div 2
            cut == IF byCol THEN { p \in RectPoints(r) : p[1] = m }
                            ELSE { p \in RectPoints(r) : p[2] = m }
        IN  /\ ~IsBase(r)
            /\ winding_num(hue, r) # 0
            /\ lo < m /\ m < hi
            /\ hi - lo >= (IF byCol THEN r[2][2] - r[1][2] ELSE r[2][1] - r[1][1])
            /\ Len(last.kids) = 2
            /\ k1[1] = r[1] /\ k2[2] = r[2]
            /\ k1[2] = (IF byCol THEN <<m, r[2][2]>> ELSE <<r[2][1], m>>)
            /\ k2[1] = (IF byCol THEN <<m, r[1][2]>> ELSE <<r[1][1], m>>)
            /\ cut \subseteq RectPoints(k1) \cap RectPoints(k2)
            /\ RectPoints(k1) \cup RectPoints(k2) = RectPoints(r)
            /\ Len(stack) >= 2 /\ stack[1] = k1 /\ stack[2] = k2

\* A rectangle with as many rows as columns and a negative winding number
\* was cut along its rows.
C10_Witness ==
    /\ last.kind = "split"
    /\ last.rect[2][1] - last.rect[1][1] = last.rect[2][2] - last.rect[1][2]
    /\ last.kids[1][2][2] < last.rect[2][2]
    /\ winding_num(hue, last.rect) < 0

(***************************************************************************)
(* C5, C6, C7.  The zoom.                                                  *)
(***************************************************************************)
\* C5: whenever zoom_fit_zero does not abort, the ranges it returns are
\* strictly inside the ranges given, at both ends of both axes.
C5_ZoomShrinksStrictly ==
    (ret.op = "zoom_fit_zero" /\ ~ret.out.aborted) =>
        /\ ret.out.re_range[1] > re_range[1]
        /\ ret.out.re_range[2] < re_range[2]
        /\ ret.out.im_range[1] > im_range[1]
        /\ ret.out.im_range[2] < im_range[2]

InGrid(v, x, y) == 0 <= x /\ x < ShapeCol(v) /\ 0 <= y /\ y < ShapeRow(v)

\* The walk from the cell (x, y) by (dx, dy) a step meets, on the grid, a
\* cell whose brightness is light_val or more.
WalkMeets(v, x, y, dx, dy, light_val) ==
    \E k \in 0..(ShapeCol(v) + ShapeRow(v)) :
        /\ \A j \in 0..k : InGrid(v, x + j * dx, y + j * dy)
        /\ v[y + k * dy][x + k * dx] >= light_val

\* Each of the four outward walks from the box b meets such a cell.
AllWalksMeet(v, b, light_val) ==
    /\ WalkMeets(v, b.x_min, b.y_min, -1, 0, light_val)
    /\ WalkMeets(v, b.x_max, b.y_min, 0, -1, light_val)
    /\ WalkMeets(v, b.x_max, b.y_max, 1, 0, light_val)
    /\ WalkMeets(v, b.x_min, b.y_max, 0, 1, light_val)

\* C6: zoom_fit_zero returns its inputs unchanged exactly when the index
\* list is empty or one of the four outward walks leaves the grid before it
\* has met a cell of brightness light_val or more; a walk that meets such a
\* cell on the grid, in the first or last row or column too, aborts nothing.
C6_AbortsOnlyOffGrid ==
    ret.op = "zoom_fit_zero" =>
        /\ ret.out.aborted <=>
             (ret.index = <<>> \/ ~AllWalksMeet(value, ret.out.box, ret.light_val))
        /\ ret.out.aborted =>
             /\ ret.out.re_range = re_range
             /\ ret.out.im_range = im_range
             /\ ret.out.step = <<step, 1>>

\* C7: for a list of (col, row) indices that is not empty, x_min and x_max
\* are the least and the greatest column of the list and y_min and y_max its
\* least and greatest row.
C7_BoxBoundsAllIndices ==
    (ret.op = "zoom_fit_zero" /\ ret.index # <<>>) =>
        LET cols == { ret.index[k][1] : k \in 1..Len(ret.index) }
            rows == { ret.index[k][2] : k \in 1..Len(ret.index) }
            b == ret.out.box
        IN  /\ b.x_min \in cols /\ \A c \in cols : b.x_min <= c
            /\ b.x_max \in cols /\ \A c \in cols : c <= b.x_max
            /\ b.y_min \in rows /\ \A r \in rows : b.y_min <= r
            /\ b.y_max \in rows /\ \A r \in rows : r <= b.y_max

(***************************************************************************)
(* C8, C9.  The branch cuts.                                               *)
(***************************************************************************)
\* The real axis (the imaginary axis) crosses the window.
ReAxisIn == im_range[1] < 0 /\ 0 < im_range[2]

ImAxisIn == re_range[1] < 0 /\ 0 < re_range[2]

\* The two hues are a wraparound pair.
WrapPair(h1, h2) == (h1 > 90 /\ h2 < 10) \/ (h2 > 90 /\ h1 < 10)

\* A position tells of a branch cut, as the claim states it.
Telling(h1, h2, v1, v2) ==
    /\ v1 > 20 /\ v2 > 20
    /\ ~WrapPair(h1, h2)
    /\ ~(Abs(h1 - h2) < 40)

\* Some position along the two probed rows (columns) tells of a branch cut.
ReAxisTells ==
    LET row == ShapeRow(hue)
        y1  == Zero1(im_range, step)
        y2  == Zero2(im_range, step)
    IN  /\ ~BadIndex(y1, row) /\ ~BadIndex(y2, row)
        /\ \E i \in 0..(ShapeCol(hue) - 1) :
             Telling(hue[PyIndex(y1, row)][i], hue[PyIndex(y2, row)][i],
                     value[PyIndex(y1, row)][i], value[PyIndex(y2, row)][i])

ImAxisTells ==
    LET col == ShapeCol(hue)
        x1  == Zero1(re_range, step)
        x2  == Zero2(re_range, step)
    IN  /\ ~BadIndex(x1, col) /\ ~BadIndex(x2, col)
        /\ \E j \in 0..(ShapeRow(hue) - 1) :
             Telling(hue[j][PyIndex(x1, col)], hue[j][PyIndex(x2, col)],
                     value[j][PyIndex(x1, col)], value[j][PyIndex(x2, col)])

\* C8: branch_cut returns true if and only if, on an axis that crosses the
\* window, some position has both brightness samples of the two probed lines
\* over 0.2 and two hues that are no wraparound pair and do not differ by
\* less than 0.4; it returns false otherwise.
C8_BranchCutIff ==
    ret.op = "branch_cut" =>
        /\ ret.val \in {"True", "False"}
        /\ ret.val = "True" <=> ((ReAxisIn /\ ReAxisTells) \/ (ImAxisIn /\ ImAxisTells))

\* C9: for an axis that crosses the window the two probed lines are inside
\* the grid and sample the points 2 steps either side of the axis: the rows
\* the imaginary parts +2*step and -2*step, the columns the real parts
\* -2*step and +2*step.
C9_ProbesStraddleAxis ==
    ret.op = "branch_cut" =>
        /\ ReAxisIn =>
             LET y1 == Zero1(im_range, step)
                 y2 == Zero2(im_range, step)
             IN  /\ 0 <= y1 /\ y1 < ShapeRow(hue) /\ GridPoint(0, y1)[2] = 2 * step
                 /\ 0 <= y2 /\ y2 < ShapeRow(hue) /\ GridPoint(0, y2)[2] = -2 * step
        /\ ImAxisIn =>
             LET x1 == Zero1(re_range, step)
                 x2 == Zero2(re_range, step)
             IN  /\ 0 <= x1 /\ x1 < ShapeCol(hue) /\ GridPoint(x1, 0)[1] = -2 * step
                 /\ 0 <= x2 /\ x2 < ShapeCol(hue) /\ GridPoint(x2, 0)[1] = 2 * step

(***************************************************************************)
(* C11.  The rectangles winding_num is called on by the zero search.       *)
(***************************************************************************)
\* The step just taken called winding_num: _calc_zeros calls it on its
\* rectangle exactly when the rectangle is not a base case.
CalledWinding == last.kind \in {"edges", "split"}

\* C11 as claimed: during a call of zeros, whatever the shape of the array
\* and the starting rectangle, winding_num is only ever called on a rectangle
\* whose span is at least 1 in both axes.
C11_NeverSubUnit ==
    CalledWinding => SpanAtLeast1(Normalize(last.rect))

\* C11: during a call of zeros whose starting rectangle has a span of at
\* least 1 in both axes, winding_num is only ever called on a rectangle whose
\* span is at least 1 in both axes.
C11_NeverSubUnitFromProperStart ==
    (CalledWinding /\ SpanAtLeast1(Normalize(last.start))) =>
        SpanAtLeast1(Normalize(last.rect))

\* winding_num has been called on a rectangle of the recursion, below a
\* starting rectangle with spans of at least 1, whose shorter span is 1.
C11_Witness ==
    /\ CalledWinding
    /\ SpanAtLeast1(Normalize(last.start))
    /\ last.rect # last.start
    /\ LET n == Normalize(last.rect) IN Min(n[3] - n[1], n[4] - n[2]) = 1

(***************************************************************************)
(* C12.  The zero search terminates.                                       *)
(***************************************************************************)
\* Whether _calc_zeros splits r into a left and a right rectangle (else into
\* an upper and a lower).
SplitsColumns(r) == r[2][2] - r[1][2] < r[2][1] - r[1][1]

\* The span of rectangle k along the axis its parent r is split on.
SpanAlongSplit(r, k) ==
    IF SplitsColumns(r) THEN k[2][1] - k[1][1] ELSE k[2][2] - k[1][2]

\* Every recursive call of the step just taken is on a rectangle whose span
\* along the split axis is at least 1 and strictly smaller than its parent's.
KidsShrink ==
    last.kind = "split" =>
        \A i \in 1..2 :
            /\ SpanAlongSplit(last.rect, last.kids[i]) >= 1
            /\ SpanAlongSplit(last.rect, last.kids[i]) < SpanAlongSplit(last.rect, last.rect)

\* C12: every recursive call of _calc_zeros is made on a rectangle whose span
\* along the split axis is strictly smaller than its parent's and at least 1,
\* and every call of zeros that has started its search comes to its end.
C12_ZerosTerminates ==
    /\ []KidsShrink
    /\ (pc = "calc") ~> (pc = "done")

\* A call of zeros has come to its end after a search that recursed: its
\* last call of _calc_zeros was on a rectangle other than the starting one.
C12_Witness ==
    /\ pc = "done"
    /\ last.kind \in {"base", "edges"}
    /\ last.rect # last.start

(***************************************************************************)
(* C13.  The winding sum is a count of wraps, additive over the split.     *)
(***************************************************************************)
\* The steps of the closed walk of n that go from a hue above 0.7 to a hue
\* below 0.3, and those that go from a hue below 0.3 to a hue above 0.7.
ForwardWraps(h, n) ==
    { k \in 0..(WalkLen(n) - 1) :
        HueAt(h, WalkPoint(n, k)) > 70 /\ HueAt(h, WalkPoint(n, k + 1)) < 30 }

BackwardWraps(h, n) ==
    { k \in 0..(WalkLen(n) - 1) :
        HueAt(h, WalkPoint(n, k)) < 30 /\ HueAt(h, WalkPoint(n, k + 1)) > 70 }

\* C13: the sum winding_num computes around a rectangle is a whole number,
\* the number of boundary steps wrapped forward less the number wrapped
\* backward, which winding_num returns; the winding number of a rectangle is
\* the sum of those of the two rectangles it is split into; and a rectangle
\* of nonzero winding number is never split into two of winding number 0.
C13_WindingCountsWrapsAndAdds ==
    ret.op = "bisect" =>
        LET n == Normalize(ret.rect)
            count == Cardinality(ForwardWraps(hue, n)) - Cardinality(BackwardWraps(hue, n))
        IN  /\ ret.sum % Unit = 0
            /\ ret.sum = Unit * count
            /\ ret.val = count
            /\ ret.val = ret.kidvals[1] + ret.kidvals[2]
            /\ ret.val # 0 => (ret.kidvals[1] # 0 \/ ret.kidvals[2] # 0)

\* A rectangle the zero search would split, of nonzero winding number, was
\* split along a cut that its two parts walk across a wrap: their walks wrap
\* forward more often than the walk of the whole.
C13_Witness ==
    /\ ret.op = "bisect"
    /\ ~IsBase(ret.rect)
    /\ ret.val # 0
    /\ Cardinality(ForwardWraps(hue, Normalize(ret.kids[1])))
         + Cardinality(ForwardWraps(hue, Normalize(ret.kids[2])))
         > Cardinality(ForwardWraps(hue, Normalize(ret.rect)))

====
